---- MODULE Spec2Model ----
(***************************************************************************)
(* A model of tiled_json: the loader of Tiled JSON maps.                   *)
(*                                                                         *)
(* The library is a set of pure conversions run once per load.  The state  *)
(* machine below holds one call at a time: Init draws the build profile,   *)
(* the entry point called and its input; exactly one action, the one of    *)
(* that entry point, runs the whole call and stores what it returns.       *)
(*                                                                         *)
(* Machine integers keep their width.  TLC's integers stop at 2^31-1, so   *)
(* a u32 is a record of two 16-bit halves [hi, lo] and a usize (64 bits)   *)
(* a sequence of four 16-bit limbs, least significant first.               *)
(***************************************************************************)
EXTENDS Integers, Sequences, FiniteSets, TLC

VARIABLES
    build,  \* "debug" (overflow checks on) or "release" (wrapping arithmetic)
    call,   \* the entry point under call: "layer", "map", "property", ...
    arg,    \* its input
    pc,     \* "start" before the call, "done" after it
    ret     \* what the call returned (NoRet before)

vars == <<build, call, arg, pc, ret>>

(***************************************************************************)
(* Option<T>, Result<T, String> and a panic.                               *)
(***************************************************************************)
None == <<>>
Some(x) == <<x>>
IsSome(o) == Len(o) = 1
IsNone(o) == Len(o) = 0
Unwrap(o) == o[1]
UnwrapOr(o, d) == IF IsSome(o) THEN o[1] ELSE d

Ok(v) == [tag |-> "Ok", v |-> v]
Err(e) == [tag |-> "Err", v |-> e]
Panic(why) == [tag |-> "Panic", v |-> why]
NoRet == [tag |-> "None", v |-> <<>>]
IsOk(r) == r.tag = "Ok"
IsErr(r) == r.tag = "Err"
IsPanic(r) == r.tag = "Panic"

\* format!(fmt, args...): the message is kept as its template and arguments.
Format(fmt, args) == [fmt |-> fmt, args |-> args]

(***************************************************************************)
(* Machine integers.                                                       *)
(***************************************************************************)
\* The u32 of a natural number below 2^31.
U32(n) == [hi |-> n \div 65536, lo |-> n % 65536]

\* The four bytes of a u32, least significant first.
U32Digits(x) == <<x.lo % 256, x.lo \div 256, x.hi % 256, x.hi \div 256>>

\* Column k (0-based) of the schoolbook product of two 4-digit numbers.
ProductColumn(da, db, k) ==
    LET Term(i) == IF k - i >= 0 /\ k - i <= 3 THEN da[i + 1] * db[k - i + 1] ELSE 0
    IN  Term(0) + Term(1) + Term(2) + Term(3)

RECURSIVE CarryColumns(_, _, _, _, _)
CarryColumns(da, db, k, carry, acc) ==
    IF k > 7 THEN acc
    ELSE LET t == ProductColumn(da, db, k) + carry
         IN  CarryColumns(da, db, k + 1, t \div 256, Append(acc, t % 256))

\* The exact 64-bit product of two u32 values as eight bytes, least significant first.
FullProduct(a, b) == CarryColumns(U32Digits(a), U32Digits(b), 0, 0, <<>>)

\* The u32 result of a product p of eight bytes: a panic under overflow checks
\* when p does not fit, the low 32 bits otherwise.
CheckedOrWrapped(p, profile) ==
    IF (p[5] # 0 \/ p[6] # 0 \/ p[7] # 0 \/ p[8] # 0) /\ profile = "debug"
    THEN Panic("attempt to multiply with overflow")
    ELSE Ok([hi |-> p[3] + 256 * p[4], lo |-> p[1] + 256 * p[2]])

\* a * b on u32.
u32_mul(a, b, profile) == CheckedOrWrapped(FullProduct(a, b), profile)

\* x as usize on a 64-bit target: zero extension.
as_usize(x) == <<x.lo, x.hi, 0, 0>>

\* The usize of a small natural number (a length).
usize_of(n) == <<n % 65536, n \div 65536, 0, 0>>

\* s * 4 on usize; a u32 widened to 64 bits cannot overflow it.
usize_mul4(s) ==
    LET t1 == s[1] * 4
        t2 == s[2] * 4 + t1 \div 65536
        t3 == s[3] * 4 + t2 \div 65536
        t4 == s[4] * 4 + t3 \div 65536
    IN  <<t1 % 65536, t2 % 65536, t3 % 65536, t4 % 65536>>

(***************************************************************************)
(* base64::decode.  A base64 text is the sequence of its symbols, each     *)
(* named by its index in the standard alphabet (0..63); PadSym is '=' and  *)
(* BadSym a character outside the alphabet.                                *)
(***************************************************************************)
PadSym == 64
BadSym == 65

RECURSIVE TrailingPads(_)
TrailingPads(s) ==
    IF Len(s) > 0 /\ s[Len(s)] = PadSym
    THEN 1 + TrailingPads(SubSeq(s, 1, Len(s) - 1))
    ELSE 0

RECURSIVE DecodeQuads(_)
DecodeQuads(s) ==
    IF Len(s) = 0 THEN <<>>
    ELSE IF Len(s) >= 4 THEN
        LET w == s[1] * 262144 + s[2] * 4096 + s[3] * 64 + s[4]
        IN  <<w \div 65536, (w \div 256) % 256, w % 256>> \o DecodeQuads(SubSeq(s, 5, Len(s)))
    ELSE IF Len(s) = 3 THEN
        LET w == s[1] * 4096 + s[2] * 64 + s[3]
        IN  <<w \div 1024, (w \div 4) % 256>>
    ELSE
        LET w == s[1] * 64 + s[2]
        IN  <<w \div 16>>

\* The bits of the last symbol that belong to no byte.
TrailingBits(s) ==
    IF Len(s) % 4 = 2 THEN s[Len(s)] % 16
    ELSE IF Len(s) % 4 = 3 THEN s[Len(s)] % 4
    ELSE 0

\* base64::decode with the standard alphabet: padding is optional but never
\* more than the canonical amount, and the unused bits of the last symbol are 0.
Base64Decode(s) ==
    LET pads == TrailingPads(s)
        body == SubSeq(s, 1, Len(s) - pads)
        n == Len(body)
    IN  IF \E i \in 1..n : body[i] >= PadSym THEN Err("InvalidByte")
        ELSE IF n % 4 = 1 THEN Err("InvalidLength")
        ELSE IF pads > ((4 - (n % 4)) % 4) THEN Err("InvalidByte")
        ELSE IF TrailingBits(body) # 0 THEN Err("InvalidLastSymbol")
        ELSE Ok(DecodeQuads(body))

(***************************************************************************)
(* flate2's ZlibDecoder and GzDecoder, read to the end.  The codecs are    *)
(* kept to what the loader observes of them: a stream is a container       *)
(* <<magic, n, b1..bn, check>> of a stored block; reading it fails on a    *)
(* foreign magic, on a stream cut short and on a wrong checksum, and       *)
(* yields b1..bn otherwise (bytes after the end of the stream are left     *)
(* unread).                                                                *)
(***************************************************************************)
ZlibMagic == 120
GzipMagic == 31

RECURSIVE SumBytes(_)
SumBytes(b) == IF Len(b) = 0 THEN 0 ELSE b[1] + SumBytes(Tail(b))

Checksum(b) == SumBytes(b) % 256

read_to_end(stream, magic) ==
    IF Len(stream) < 3 THEN Err("unexpected end of file")
    ELSE IF stream[1] # magic THEN Err("invalid header")
    ELSE LET n == stream[2]
         IN  IF Len(stream) < n + 3 THEN Err("unexpected end of file")
             ELSE IF stream[n + 3] # Checksum(SubSeq(stream, 3, n + 2))
                  THEN Err("checksum mismatch")
             ELSE Ok(SubSeq(stream, 3, n + 2))

\* if zl.read_to_end(&mut decompressed).is_err() { return false; } .. true
ReadInto(r) == IF IsErr(r) THEN <<FALSE, <<>>>> ELSE <<TRUE, r.v>>

\* decompress_tile_layer_data: <<success, decompressed>>.
decompress_tile_layer_data(decoded, compression) ==
    IF compression = "zlib" THEN ReadInto(read_to_end(decoded, ZlibMagic))
    ELSE IF compression = "gzip" THEN ReadInto(read_to_end(decoded, GzipMagic))
    ELSE <<FALSE, <<>>>>

(***************************************************************************)
(* layerreader.rs: the tile data of a tile layer.                          *)
(***************************************************************************)
\* A usize that is known to be a length of the model, as a number.
usize_to_nat(s) == s[1] + 65536 * s[2]

\* The four bytes read as a big-endian word.
WordAtBigEndian(vector, x) ==
    [hi |-> vector[x + 2] + 256 * vector[x + 1],
     lo |-> vector[x + 4] + 256 * vector[x + 3]]

\* (v[x] as u32) | (v[x+1] as u32) << 8 | (v[x+2] as u32) << 16 | (v[x+3] as u32) << 24
WordAt(vector, x) ==
    [hi |-> vector[x + 3] + 256 * vector[x + 4],
     lo |-> vector[x + 1] + 256 * vector[x + 2]]

\* while x < (size_bytes - 3) { ret.push(..); x += 4; }
RECURSIVE PushWords(_, _, _, _)
PushWords(vector, x, limit, acc) ==
    IF x < limit
    THEN PushWords(vector, x + 4, limit, Append(acc, WordAt(vector, x)))
    ELSE acc

\* vector.len() != size_bytes
SizeCheck(vector, size_bytes) == usize_of(Len(vector)) # size_bytes

\* decode_tile_layer_data from line 216 on: vector is the decoded, or the
\* decompressed, buffer.
DecodeWords(vector, size_bytes, name) ==
    IF Len(vector) = 0 THEN Ok(None)
    ELSE IF SizeCheck(vector, size_bytes) THEN
        Err(Format("corrupted tilelayer data for name: {}", <<name>>))
    ELSE Ok(Some(PushWords(vector, 0, usize_to_nat(size_bytes) - 3, <<>>)))

\* decode_tile_layer_data, lines 204 to 214: d is what
\* decompress_tile_layer_data gave, <<success, decompressed>>.
AfterDecompress(d, size_bytes, name, c) ==
    IF ~d[1] THEN
        Err(Format("invalid compression data in tilelayer named {}, compression: {}",
                   <<name, c>>))
    ELSE DecodeWords(d[2], size_bytes, name)

\* decode_tile_layer_data from line 192 on: decoded is what base64::decode gave.
AfterBase64(decoded, size_bytes, name, compression) ==
    IF IsErr(decoded) THEN
        Err(Format("Cannot decode base64 string of tilelayer named: {}", <<name>>))
    ELSE IF IsSome(compression) /\ Unwrap(compression) # "" THEN
        AfterDecompress(decompress_tile_layer_data(decoded.v, Unwrap(compression)),
                        size_bytes, name, Unwrap(compression))
    ELSE DecodeWords(decoded.v, size_bytes, name)

decode_tile_layer_data(string_data, size, name, compression) ==
    AfterBase64(Base64Decode(string_data), usize_mul4(size), name, compression)

\* TileLayerDataReader: Vector(Vec<u32>) or Base64(String).
DataVector(v) == [variant |-> "Vector", vector |-> v, string |-> <<>>]
DataBase64(s) == [variant |-> "Base64", vector |-> <<>>, string |-> s]

\* let v = decode_tile_layer_data(..)?; Ok(v.unwrap_or_default())
UnwrapOrDefault(v) == IF IsErr(v) THEN v ELSE Ok(UnwrapOr(v.v, <<>>))

get_tile_layer_data(data, size, name, compression) ==
    IF IsNone(data) THEN Ok(<<>>)
    ELSE IF Unwrap(data).variant = "Vector" THEN Ok(Unwrap(data).vector)
    ELSE UnwrapOrDefault(decode_tile_layer_data(Unwrap(data).string, size, name, compression))

(***************************************************************************)
(* color.rs.  A text is the sequence of its characters.                    *)
(***************************************************************************)
hex_char_to_u8(hex) ==
    CASE hex = "0" -> 0 [] hex = "1" -> 1 [] hex = "2" -> 2 [] hex = "3" -> 3
      [] hex = "4" -> 4 [] hex = "5" -> 5 [] hex = "6" -> 6 [] hex = "7" -> 7
      [] hex = "8" -> 8 [] hex = "9" -> 9
      [] hex \in {"a", "A"} -> 10 [] hex \in {"b", "B"} -> 11
      [] hex \in {"c", "C"} -> 12 [] hex \in {"d", "D"} -> 13
      [] hex \in {"e", "E"} -> 14 [] hex \in {"f", "F"} -> 15
      [] OTHER -> 0

hex_set_to_u8(hex1, hex2) == (hex_char_to_u8(hex1) * 16) + hex_char_to_u8(hex2)

default_color == [r |-> 255, g |-> 0, b |-> 255, a |-> 255]

ColorNew(string) ==
    LET length == Len(string)
    IN  IF (length # 7 /\ length # 9) \/ string[1] # "#" THEN default_color
        ELSE LET o == IF length = 9 THEN 2 ELSE 0
             IN  [a |-> IF length = 9 THEN hex_set_to_u8(string[2], string[3]) ELSE 255,
                  r |-> hex_set_to_u8(string[o + 2], string[o + 3]),
                  g |-> hex_set_to_u8(string[o + 4], string[o + 5]),
                  b |-> hex_set_to_u8(string[o + 6], string[o + 7])]

(***************************************************************************)
(* property.rs.  An f64 is kept as its integer part and its tenths.        *)
(***************************************************************************)
TYPE_FILE == "file"
TYPE_STRING == "string"
TYPE_INT == "int"
TYPE_FLOAT == "float"
TYPE_BOOL == "bool"
TYPE_COLOR == "color"

F64(ip, fp) == [ip |-> ip, fp |-> fp]
i32_as_f64(x) == F64(x, 0)

StringV(x) == [variant |-> "StringV", v |-> x]
IntV(x) == [variant |-> "Int", v |-> x]
FloatV(x) == [variant |-> "Float", v |-> x]
BoolV(x) == [variant |-> "Bool", v |-> x]
ColorV(x) == [variant |-> "Color", v |-> x]
FileV(x) == [variant |-> "File", v |-> x]

\* A JSON value: a string, an integer literal that fits an i32, any other
\* number, a boolean, or null.
JString(t) == [kind |-> "string", text |-> t, num |-> <<>>, bool |-> <<>>]
JInt(n) == [kind |-> "int", text |-> <<>>, num |-> <<n>>, bool |-> <<>>]
JNumber(x) == [kind |-> "number", text |-> <<>>, num |-> <<x.ip, x.fp>>, bool |-> <<>>]
JBool(b) == [kind |-> "bool", text |-> <<>>, num |-> <<>>, bool |-> <<b>>]
JNull == [kind |-> "null", text |-> <<>>, num |-> <<>>, bool |-> <<>>]

\* #[serde(untagged)] PropertyValue: the first variant the value fits, in
\* declaration order StringV, Int, Float, Bool, Color, File.
DeserializePropertyValue(j) ==
    CASE j.kind = "string" -> Ok(StringV(j.text))
      [] j.kind = "int" -> Ok(IntV(j.num[1]))
      [] j.kind = "number" -> Ok(FloatV(F64(j.num[1], j.num[2])))
      [] j.kind = "bool" -> Ok(BoolV(j.bool[1]))
      [] OTHER -> Err("data did not match any variant of untagged enum PropertyValue")

\* A conversion that keeps an integer an Int whatever the declared type.
PropertyFromIntKept(pl) ==
    [name |-> pl.name,
     value |-> IF pl.value.variant = "StringV"
               THEN (IF pl.ptype = TYPE_STRING THEN StringV(pl.value.v)
                     ELSE IF pl.ptype = TYPE_FILE THEN FileV(pl.value.v)
                     ELSE ColorV(ColorNew(pl.value.v)))
               ELSE pl.value]

\* A conversion that makes a Color of a string only when the declared type is
\* "color", and keeps the string otherwise.
PropertyFromColorOnlyWhenDeclared(pl) ==
    [name |-> pl.name,
     value |-> IF pl.value.variant = "StringV"
               THEN (IF pl.ptype = TYPE_FILE THEN FileV(pl.value.v)
                     ELSE IF pl.ptype = TYPE_COLOR THEN ColorV(ColorNew(pl.value.v))
                     ELSE StringV(pl.value.v))
               ELSE IF pl.value.variant = "Int" /\ pl.ptype = TYPE_FLOAT
               THEN FloatV(i32_as_f64(pl.value.v))
               ELSE pl.value]

\* A conversion that makes a Float of every integer.
PropertyFromIntAlwaysFloat(pl) ==
    [name |-> pl.name,
     value |-> IF pl.value.variant = "StringV"
               THEN (IF pl.ptype = TYPE_STRING THEN StringV(pl.value.v)
                     ELSE IF pl.ptype = TYPE_FILE THEN FileV(pl.value.v)
                     ELSE ColorV(ColorNew(pl.value.v)))
               ELSE IF pl.value.variant = "Int"
               THEN FloatV(i32_as_f64(pl.value.v))
               ELSE pl.value]

\* A conversion that keeps the value as serde read it.
PropertyFromUntouched(pl) == [name |-> pl.name, value |-> pl.value]

\* From<PropertyLoader> for Property
PropertyFrom(pl) ==
    LET v == CASE pl.value.variant = "Bool" -> pl.value
               [] pl.value.variant = "Float" -> pl.value
               [] pl.value.variant = "Color" -> pl.value
               [] pl.value.variant = "Int" ->
                    IF pl.ptype = TYPE_FLOAT
                    THEN FloatV(i32_as_f64(pl.value.v))
                    ELSE IntV(pl.value.v)
               [] OTHER ->
                    IF pl.ptype = TYPE_STRING THEN StringV(pl.value.v)
                    ELSE IF pl.ptype = TYPE_FILE THEN FileV(pl.value.v)
                    ELSE ColorV(ColorNew(pl.value.v))
    IN  [name |-> pl.name, value |-> v]

\* #[derive(Deserialize)] PropertyLoader, then Property::from.
LoaderInto(j, value) ==
    IF IsErr(value) THEN value
    ELSE Ok(PropertyFrom([name |-> j.name, ptype |-> j.type, value |-> value.v]))

\* #[serde(from = "PropertyLoader")] Property: the JSON object {name, type, value}.
DeserializeProperty(j) == LoaderInto(j, DeserializePropertyValue(j.value))

type_as_string(p) ==
    CASE p.value.variant = "Int" -> TYPE_INT
      [] p.value.variant = "Float" -> TYPE_FLOAT
      [] p.value.variant = "Bool" -> TYPE_BOOL
      [] p.value.variant = "Color" -> TYPE_COLOR
      [] p.value.variant = "StringV" -> TYPE_STRING
      [] p.value.variant = "File" -> TYPE_FILE

\* Vec<Property>: the elements in order, ended by the first that fails.
RECURSIVE DeserializeProperties(_, _)
NextProperty(p, rest, acc) ==
    IF IsErr(p) THEN p ELSE DeserializeProperties(rest, Append(acc, p.v))

DeserializeProperties(items, acc) ==
    IF Len(items) = 0 THEN Ok(acc)
    ELSE NextProperty(DeserializeProperty(Head(items)), Tail(items), acc)

(***************************************************************************)
(* layer.rs and layerreader.rs: the four layer shapes.                     *)
(***************************************************************************)
DRAWORDER_TOPDOWN == "topdown"
DRAWORDER_INDEX == "index"

LAYER_TILE == "tilelayer"
LAYER_OBJGROUP == "objectgroup"
LAYER_IMAGE == "imagelayer"
LAYER_GROUP == "group"

\* LayerDataContainer
TileLayerData(data) == [variant |-> "TileLayer", data |-> data]
ObjectGroupData(draworder, objects) ==
    [variant |-> "ObjectGroup", draworder |-> draworder, objects |-> objects]
ImageLayerData(image, transparentcolor) ==
    [variant |-> "ImageLayer", image |-> image, transparentcolor |-> transparentcolor]
GroupData(layers) == [variant |-> "Group", layers |-> layers]

u32_to_string(x) == ToString(x.hi * 65536 + x.lo)

\* A layer that is always visible.
MakeLayerVisible(lr, ltype, layerdata) ==
    [id |-> lr.id, name |-> lr.name, opacity |-> lr.opacity, visible |-> TRUE,
     width |-> lr.width, height |-> lr.height,
     offsetx |-> lr.offsetx, offsety |-> lr.offsety,
     ltype |-> ltype, layerdata |-> layerdata,
     properties |-> UnwrapOr(lr.properties, <<>>)]

\* The common fields and the shape, put together at the end of try_from.
MakeLayer(lr, ltype, layerdata) ==
    [id |-> lr.id, name |-> lr.name, opacity |-> lr.opacity, visible |-> lr.visible,
     width |-> lr.width, height |-> lr.height,
     offsetx |-> lr.offsetx, offsety |-> lr.offsety,
     ltype |-> ltype, layerdata |-> layerdata,
     properties |-> UnwrapOr(lr.properties, <<>>)]

\* layerdata = LayerDataContainer::TileLayer { data }, data being what
\* get_tile_layer_data(..)? gave.
TileLayerOf(lr, data) ==
    IF IsErr(data) THEN data
    ELSE Ok(MakeLayer(lr, "TileLayer", TileLayerData(data.v)))

\* The LAYER_TILE arm, size being what lr.width * lr.height gave.
TileArm(lr, size) ==
    IF IsPanic(size) THEN size
    ELSE TileLayerOf(lr, get_tile_layer_data(lr.data, as_usize(size.v),
                                             lr.name, lr.compression))

\* A match whose last arm gives Index.
DrawOrderOfIndexByDefault(order) ==
    CASE order = DRAWORDER_INDEX -> "Index"
      [] order = DRAWORDER_TOPDOWN -> "TopDown"
      [] OTHER -> "Index"

\* match lr.draworder.unwrap_or_default().as_str()
DrawOrderOf(order) ==
    CASE order = DRAWORDER_INDEX -> "Index"
      [] order = DRAWORDER_TOPDOWN -> "TopDown"
      [] OTHER -> "TopDown"

\* The LAYER_OBJGROUP arm.
ObjectGroupArm(lr) ==
    Ok(MakeLayer(lr, "ObjectGroup",
                 ObjectGroupData(DrawOrderOf(UnwrapOr(lr.draworder, "")),
                                 UnwrapOr(lr.objects, <<>>))))

\* An image arm that keeps the tag and stores the nested layers.
ImageArmStoringLayers(lr) ==
    Ok(MakeLayer(lr, "ImageLayer", GroupData(UnwrapOr(lr.layers, <<>>))))

\* The LAYER_IMAGE arm.
ImageArm(lr) ==
    Ok(MakeLayer(lr, "ImageLayer",
                 ImageLayerData(UnwrapOr(lr.image, ""), lr.transparentcolor)))

\* The LAYER_GROUP arm.
GroupArm(lr) == Ok(MakeLayer(lr, "Group", GroupData(UnwrapOr(lr.layers, <<>>))))

\* A last arm that falls back to a group.
UnknownArmAsGroup(lr) == GroupArm(lr)

\* The arm of every other string.
UnknownArm(lr) ==
    Err(Format("invalid layer type {} (id: {}, name: {})",
               <<lr.ltype,
                 IF IsSome(lr.id) THEN u32_to_string(Unwrap(lr.id)) ELSE "nil",
                 lr.name>>))

\* TryFrom<LayerReader> for Layer
try_from(lr, profile) ==
    CASE lr.ltype = LAYER_TILE -> TileArm(lr, u32_mul(lr.width, lr.height, profile))
      [] lr.ltype = LAYER_OBJGROUP -> ObjectGroupArm(lr)
      [] lr.ltype = LAYER_IMAGE -> ImageArm(lr)
      [] lr.ltype = LAYER_GROUP -> GroupArm(lr)
      [] OTHER -> UnknownArm(lr)

default_to_one_f64 == F64(1, 0)
default_to_true == TRUE

\* #[serde(try_from = "LayerReader")] Layer: the JSON object of a layer is read
\* into a LayerReader, its nested layers and properties first, and try_from
\* makes the Layer of it.  The first failure ends the reading.
RECURSIVE DeserializeLayer(_, _)
RECURSIVE DeserializeLayers(_, _, _)

\* Vec<Layer>: the elements in order, ended by the first that fails.
NextLayer(l, rest, profile, acc) ==
    IF ~IsOk(l) THEN l ELSE DeserializeLayers(rest, profile, Append(acc, l.v))

DeserializeLayers(items, profile, acc) ==
    IF Len(items) = 0 THEN Ok(acc)
    ELSE NextLayer(DeserializeLayer(Head(items), profile), Tail(items), profile, acc)

\* The fields of LayerReader, layers and properties being what reading the
\* two nested arrays gave.
LayerReaderOf(j, layers, properties) ==
    IF ~IsOk(layers) THEN layers
    ELSE IF ~IsOk(properties) THEN properties
    ELSE IF IsNone(j.type) THEN Err("missing field type")
    ELSE Ok([height |-> UnwrapOr(j.height, U32(0)),
             width |-> UnwrapOr(j.width, U32(0)),
             ltype |-> Unwrap(j.type),
             id |-> j.id,
             name |-> UnwrapOr(j.name, ""),
             compression |-> j.compression,
             offsetx |-> UnwrapOr(j.offsetx, F64(0, 0)),
             offsety |-> UnwrapOr(j.offsety, F64(0, 0)),
             opacity |-> UnwrapOr(j.opacity, default_to_one_f64),
             visible |-> UnwrapOr(j.visible, default_to_true),
             transparentcolor |-> IF IsSome(j.transparentcolor)
                                  THEN Some(ColorNew(Unwrap(j.transparentcolor)))
                                  ELSE None,
             draworder |-> j.draworder,
             image |-> j.image,
             data |-> j.data,
             layers |-> IF IsSome(j.layers) THEN Some(layers.v) ELSE None,
             objects |-> j.objects,
             properties |-> IF IsSome(j.properties) THEN Some(properties.v) ELSE None])

\* #[derive(Deserialize)] LayerReader, with its #[serde(default)]s.
DeserializeLayerReader(j, profile) ==
    LayerReaderOf(j,
                  IF IsSome(j.layers)
                  THEN DeserializeLayers(Unwrap(j.layers), profile, <<>>)
                  ELSE Ok(<<>>),
                  IF IsSome(j.properties)
                  THEN DeserializeProperties(Unwrap(j.properties), <<>>)
                  ELSE Ok(<<>>))

\* Layer::try_from(LayerReader::deserialize(..)?)
TryFromReader(lr, profile) == IF ~IsOk(lr) THEN lr ELSE try_from(lr.v, profile)

DeserializeLayer(j, profile) == TryFromReader(DeserializeLayerReader(j, profile), profile)

\* Layer's accessors.
is_tile_layer(l) == l.ltype = "TileLayer"
is_object_group(l) == l.ltype = "ObjectGroup"
is_image_layer(l) == l.ltype = "ImageLayer"
is_group(l) == l.ltype = "Group"

get_data(l) ==
    IF l.layerdata.variant = "TileLayer" THEN Some(l.layerdata.data) ELSE None
get_objects_vector(l) ==
    IF l.layerdata.variant = "ObjectGroup" THEN Some(l.layerdata.objects) ELSE None
get_image(l) ==
    IF l.layerdata.variant = "ImageLayer" THEN Some(l.layerdata.image) ELSE None
get_layers(l) ==
    IF l.layerdata.variant = "Group" THEN Some(l.layerdata.layers) ELSE None

(***************************************************************************)
(* tileset.rs, map.rs and lib.rs: the document.                            *)
(***************************************************************************)
\* The fields of Tile, objectgroup being what reading the nested layer gave.
TileOf(j, objectgroup) ==
    IF ~IsOk(objectgroup) THEN objectgroup
    ELSE Ok([id |-> j.id,
             objectgroup |-> IF IsSome(j.objectgroup) THEN Some(objectgroup.v) ELSE None])

\* #[derive(Deserialize)] Tile: objectgroup is an Option<Layer>.
DeserializeTile(j, profile) ==
    TileOf(j, IF IsSome(j.objectgroup)
              THEN DeserializeLayer(Unwrap(j.objectgroup), profile)
              ELSE Ok(<<>>))

\* Vec<Tile>: the elements in order, ended by the first that fails.
RECURSIVE DeserializeTiles(_, _, _)
NextTile(t, rest, profile, acc) ==
    IF ~IsOk(t) THEN t ELSE DeserializeTiles(rest, profile, Append(acc, t.v))

DeserializeTiles(items, profile, acc) ==
    IF Len(items) = 0 THEN Ok(acc)
    ELSE NextTile(DeserializeTile(Head(items), profile), Tail(items), profile, acc)

\* The fields of Tileset, tiles being what reading the nested array gave.
TilesetOf(j, tiles) ==
    IF ~IsOk(tiles) THEN tiles
    ELSE Ok([firstgid |-> j.firstgid, tiles |-> tiles.v])

\* #[derive(Deserialize)] Tileset
DeserializeTileset(j, profile) == TilesetOf(j, DeserializeTiles(j.tiles, profile, <<>>))

\* Vec<Tileset>: the elements in order, ended by the first that fails.
RECURSIVE DeserializeTilesets(_, _, _)
NextTileset(t, rest, profile, acc) ==
    IF ~IsOk(t) THEN t ELSE DeserializeTilesets(rest, profile, Append(acc, t.v))

DeserializeTilesets(items, profile, acc) ==
    IF Len(items) = 0 THEN Ok(acc)
    ELSE NextTileset(DeserializeTileset(Head(items), profile), Tail(items), profile, acc)

\* The fields of Map, layers and tilesets being what reading the two arrays
\* gave; the array that comes first in the document is read first.
MapOf(j, layers, tilesets) ==
    IF j.layers_first /\ ~IsOk(layers) THEN layers
    ELSE IF ~IsOk(tilesets) THEN tilesets
    ELSE IF ~IsOk(layers) THEN layers
    ELSE Ok([tilesets |-> tilesets.v, layers |-> layers.v])

\* #[derive(Deserialize)] Map: the keys are read in the order of the document.
DeserializeMap(j, profile) ==
    MapOf(j, DeserializeLayers(j.layers, profile, <<>>),
             DeserializeTilesets(j.tilesets, profile, <<>>))

\* serde_json's error becomes the std::io::Error that load_map returns.
IntoIoError(map) ==
    IF IsErr(map) THEN Err([kind |-> "InvalidData", error |-> map.v]) ELSE map

\* load_map: the file is opened and read, then parsed.
load_map(file, profile) ==
    IF IsNone(file) THEN Err([kind |-> "NotFound", error |-> "No such file or directory"])
    ELSE IntoIoError(DeserializeMap(Unwrap(file), profile))

(***************************************************************************)
(* lib.rs: the flip flags of a gid.  The bitwise operators work on the     *)
(* 16-bit halves of a u32.                                                 *)
(***************************************************************************)
RECURSIVE BitAnd(_, _)
BitAnd(a, b) ==
    IF a = 0 \/ b = 0 THEN 0
    ELSE (a % 2) * (b % 2) + 2 * BitAnd(a \div 2, b \div 2)

RECURSIVE BitOr(_, _)
BitOr(a, b) ==
    IF a = 0 THEN b
    ELSE IF b = 0 THEN a
    ELSE (IF a % 2 = 1 \/ b % 2 = 1 THEN 1 ELSE 0) + 2 * BitOr(a \div 2, b \div 2)

\* a & b, a | b and !a on u32.
u32_and(a, b) == [hi |-> BitAnd(a.hi, b.hi), lo |-> BitAnd(a.lo, b.lo)]
u32_or(a, b) == [hi |-> BitOr(a.hi, b.hi), lo |-> BitOr(a.lo, b.lo)]
u32_not(a) == [hi |-> 65535 - a.hi, lo |-> 65535 - a.lo]

\* a > 0 and a <= b on u32.
u32_positive(a) == a.hi > 0 \/ a.lo > 0
u32_le(a, b) == a.hi < b.hi \/ (a.hi = b.hi /\ a.lo <= b.lo)

\* 0x8000_0000, 0x4000_0000 and 0x2000_0000.
HORZ_FLIP_FLAG == [hi |-> 32768, lo |-> 0]
VERT_FLIP_FLAG == [hi |-> 16384, lo |-> 0]
DIAG_FLIP_FLAG == [hi |-> 8192, lo |-> 0]

gid_flipped_horizontally(gid) == u32_positive(u32_and(gid, HORZ_FLIP_FLAG))
gid_flipped_vertically(gid) == u32_positive(u32_and(gid, VERT_FLIP_FLAG))
gid_flipped_diagonally(gid) == u32_positive(u32_and(gid, DIAG_FLIP_FLAG))

gid_flipped_hvd(gid) ==
    <<u32_positive(u32_and(gid, HORZ_FLIP_FLAG)),
      u32_positive(u32_and(gid, VERT_FLIP_FLAG)),
      u32_positive(u32_and(gid, DIAG_FLIP_FLAG))>>

\* A stripping that leaves the diagonal flag in place.
gid_without_flagsKeepingDiagonal(gid) ==
    u32_and(gid, u32_not(u32_or(HORZ_FLIP_FLAG, VERT_FLIP_FLAG)))

gid_without_flags(gid) ==
    u32_and(gid, u32_not(u32_or(u32_or(HORZ_FLIP_FLAG, VERT_FLIP_FLAG), DIAG_FLIP_FLAG)))

(***************************************************************************)
(* map.rs: the tileset of a gid.                                           *)
(***************************************************************************)
\* for i in self.tilesets.iter().rev() { if i.firstgid <= cf { return Some(i); } } None
RECURSIVE ScanRev(_, _, _)
ScanRev(tilesets, i, cf) ==
    IF i = 0 THEN None
    ELSE IF u32_le(tilesets[i].firstgid, cf) THEN Some(tilesets[i])
    ELSE ScanRev(tilesets, i - 1, cf)

tileset_by_gid(map, gid) == ScanRev(map.tilesets, Len(map.tilesets), gid_without_flags(gid))

(***************************************************************************)
(* layer.rs: the tile at a position.  pos is a usize, kept as a number;    *)
(* data[pos] panics when pos is not below data.len().                      *)
(***************************************************************************)
\* if let LayerDataContainer::TileLayer { ref data } = self.layerdata { if data.len() < pos {
PositionGuard(l, pos) ==
    l.layerdata.variant = "TileLayer" /\ Len(l.layerdata.data) < pos

\* data[pos]
IndexPanics(data, pos) == ~(pos < Len(data))
OutOfBounds == Panic("index out of bounds")

is_flipped_horizontally(l, pos) ==
    IF PositionGuard(l, pos) THEN
        IF IndexPanics(l.layerdata.data, pos) THEN OutOfBounds
        ELSE Ok(gid_flipped_horizontally(l.layerdata.data[pos + 1]))
    ELSE Ok(FALSE)

is_flipped_vertically(l, pos) ==
    IF PositionGuard(l, pos) THEN
        IF IndexPanics(l.layerdata.data, pos) THEN OutOfBounds
        ELSE Ok(gid_flipped_vertically(l.layerdata.data[pos + 1]))
    ELSE Ok(FALSE)

is_flipped_diagonally(l, pos) ==
    IF PositionGuard(l, pos) THEN
        IF IndexPanics(l.layerdata.data, pos) THEN OutOfBounds
        ELSE Ok(gid_flipped_diagonally(l.layerdata.data[pos + 1]))
    ELSE Ok(FALSE)

is_flipped_hvd(l, pos) ==
    IF PositionGuard(l, pos) THEN
        IF IndexPanics(l.layerdata.data, pos) THEN OutOfBounds
        ELSE Ok(gid_flipped_hvd(l.layerdata.data[pos + 1]))
    ELSE Ok(<<FALSE, FALSE, FALSE>>)

get_gid_without_flags(l, pos) ==
    IF PositionGuard(l, pos) THEN
        IF IndexPanics(l.layerdata.data, pos) THEN OutOfBounds
        ELSE Ok(gid_without_flags(l.layerdata.data[pos + 1]))
    ELSE Ok(U32(0))

(***************************************************************************)
(* tileset.rs: rows, the place of a tile in the image and the frame of an  *)
(* animation.  A u16 is a number below 2^16; the operators that can        *)
(* overflow it panic under overflow checks and wrap otherwise.             *)
(***************************************************************************)
\* a - b on u32.
u32_sub(a, b, profile) ==
    IF ~u32_le(b, a) /\ profile = "debug"
    THEN Panic("attempt to subtract with overflow")
    ELSE Ok([hi |-> (a.hi - b.hi - (IF a.lo < b.lo THEN 1 ELSE 0)) % 65536,
             lo |-> (a.lo - b.lo) % 65536])

\* x as u16 on u32: the low 16 bits.
u32_as_u16(x) == x.lo

\* The bytes of a / c, least significant first: long division over the bytes
\* d of a, from the most significant (k = 4) down.
RECURSIVE LongDivision(_, _, _, _, _)
LongDivision(d, k, c, rem, q) ==
    IF k = 0 THEN q
    ELSE LongDivision(d, k - 1, c, (rem * 256 + d[k]) % c,
                      <<(rem * 256 + d[k]) \div c>> \o q)

U32OfBytes(q) == [hi |-> q[3] + 256 * q[4], lo |-> q[1] + 256 * q[2]]

\* a / (c as u32) and a % (c as u32) on u32, c being a u16 that is not 0.
u32_div(a, c) == U32OfBytes(LongDivision(U32Digits(a), 4, c, 0, <<>>))

RECURSIVE LongRemainder(_, _, _, _)
LongRemainder(d, k, c, rem) ==
    IF k = 0 THEN rem ELSE LongRemainder(d, k - 1, c, (rem * 256 + d[k]) % c)

u32_rem(a, c) == LongRemainder(U32Digits(a), 4, c, 0)

\* a + b, a * b, a % b and a / b on u16.
u16_add(a, b, profile) ==
    IF a + b > 65535 /\ profile = "debug"
    THEN Panic("attempt to add with overflow")
    ELSE Ok((a + b) % 65536)

\* The low 16 bits of a * b, from the bytes of a and b.
MulLow16(a, b) ==
    ((a % 256) * (b % 256)
     + 256 * (((a \div 256) * (b % 256) + (a % 256) * (b \div 256)) % 256)) % 65536

u16_mul(a, b, profile) ==
    IF b # 0 /\ a > 65535 \div b /\ profile = "debug"
    THEN Panic("attempt to multiply with overflow")
    ELSE Ok(MulLow16(a, b))

u16_rem(a, b) ==
    IF b = 0 THEN Panic("attempt to calculate the remainder with a divisor of zero")
    ELSE Ok(a % b)

u16_div(a, b) ==
    IF b = 0 THEN Panic("attempt to divide by zero") ELSE Ok(a \div b)

\* if self.columns == 0 { return 0; } (self.tilecount / self.columns as u32) as u16
rows(ts) ==
    IF ts.columns = 0 THEN 0
    ELSE u32_as_u16(u32_div(ts.tilecount, ts.columns))

\* (crate::gid_without_flags(gid) - self.firstgid) as u16
LocalIdOf(d) == IF IsPanic(d) THEN d ELSE Ok(u32_as_u16(d.v))

as_local_id(ts, gid, profile) ==
    LocalIdOf(u32_sub(gid_without_flags(gid), ts.firstgid, profile))

\* product + self.margin, product being what the multiplication gave.
AddMargin(product, margin, profile) ==
    IF IsPanic(product) THEN product ELSE u16_add(product.v, margin, profile)

\* (size + self.spacing) * index + self.margin, step being what the addition
\* gave and index what lid % self.columns, or lid / self.columns, gave.
Axis(step, index, margin, profile) ==
    IF IsPanic(step) THEN step
    ELSE IF IsPanic(index) THEN index
    ELSE AddMargin(u16_mul(step.v, index.v, profile), margin, profile)

\* (x, y)
Pair(x, y) ==
    IF IsPanic(x) THEN x ELSE IF IsPanic(y) THEN y ELSE Ok(<<x.v, y.v>>)

\* coord_by_gid after its first line, lid being what as_local_id gave.
CoordOf(ts, lid, profile) ==
    IF IsPanic(lid) THEN lid
    ELSE Pair(Axis(u16_add(ts.tilewidth, ts.spacing, profile),
                   u16_rem(lid.v, ts.columns), ts.margin, profile),
              Axis(u16_add(ts.tileheight, ts.spacing, profile),
                   u16_div(lid.v, ts.columns), ts.margin, profile))

coord_by_gid(ts, gid, profile) == CoordOf(ts, as_local_id(ts, gid, profile), profile)

\* for f in self.animation.iter() { total += f.duration; }
RECURSIVE SumDurations(_, _, _, _)
SumDurations(animation, i, total, profile) ==
    IF i > Len(animation) THEN Ok(total)
    ELSE IF total + animation[i].duration > 65535 /\ profile = "debug"
    THEN Panic("attempt to add with overflow")
    ELSE SumDurations(animation, i + 1, (total + animation[i].duration) % 65536, profile)

get_anim_total(tile, profile) == SumDurations(tile.animation, 1, 0, profile)

\* for f in self.animation.iter() { if msecs < f.duration { return (true, f.tileid); }
\* msecs -= f.duration; }, and (false, 0) after the loop.
RECURSIVE FrameAt(_, _, _)
FrameAt(animation, i, msecs) ==
    IF i > Len(animation) THEN <<FALSE, 0>>
    ELSE IF msecs < animation[i].duration THEN <<TRUE, animation[i].tileid>>
    ELSE FrameAt(animation, i + 1, msecs - animation[i].duration)

\* get_anim from (msecs % total) on, total being what get_anim_total gave.
AnimOf(tile, msecs, total) ==
    IF IsPanic(total) THEN total
    ELSE IF total.v = 0
    THEN Panic("attempt to calculate the remainder with a divisor of zero")
    ELSE Ok(FrameAt(tile.animation, 1, u32_rem(msecs, total.v)))

get_anim(tile, msecs, profile) ==
    IF Len(tile.animation) # 0
    THEN AnimOf(tile, msecs, get_anim_total(tile, profile))
    ELSE Ok(<<FALSE, 0>>)

(***************************************************************************)
(* map.rs: the layer of a name.                                            *)
(***************************************************************************)
\* A scan that goes on to the last layer of the name.
RECURSIVE ScanLayersToLast(_, _, _)
ScanLayersToLast(layers, i, name) ==
    IF i > Len(layers) THEN None
    ELSE IF layers[i].name = name /\ IsNone(ScanLayersToLast(layers, i + 1, name))
    THEN Some(layers[i])
    ELSE ScanLayersToLast(layers, i + 1, name)

\* for l in self.layers.iter() { if l.name == name { return Some(&l); } } None
RECURSIVE ScanLayers(_, _, _)
ScanLayers(layers, i, name) ==
    IF i > Len(layers) THEN None
    ELSE IF layers[i].name = name THEN Some(layers[i])
    ELSE ScanLayers(layers, i + 1, name)

layer_by_name(map, name) == ScanLayers(map.layers, 1, name)

(***************************************************************************)
(* The inputs.  A payload is built the way the map editor builds it: the   *)
(* little-endian bytes of the tiles, compressed or not, then base64.       *)
(***************************************************************************)
MaxTiles == 2
MaxDepth == 2

SeqsUpTo(S, n) == UNION {[1..k -> S] : k \in 0..n}

RECURSIVE LEBytes(_)
LEBytes(values) ==
    IF Len(values) = 0 THEN <<>>
    ELSE U32Digits(Head(values)) \o LEBytes(Tail(values))

RECURSIVE Base64Encode(_)
Base64Encode(b) ==
    IF Len(b) = 0 THEN <<>>
    ELSE IF Len(b) >= 3 THEN
        LET w == b[1] * 65536 + b[2] * 256 + b[3]
        IN  <<w \div 262144, (w \div 4096) % 64, (w \div 64) % 64, w % 64>>
            \o Base64Encode(SubSeq(b, 4, Len(b)))
    ELSE IF Len(b) = 2 THEN
        LET w == (b[1] * 256 + b[2]) * 4
        IN  <<w \div 4096, (w \div 64) % 64, w % 64, PadSym>>
    ELSE
        LET w == b[1] * 16
        IN  <<w \div 64, w % 64, PadSym, PadSym>>

\* The stream a compressor writes for the bytes b.
Deflate(b, magic) == <<magic, Len(b)>> \o b \o <<Checksum(b)>>

\* 0, 0x04030201 and 5 with the horizontal flip flag (bit 31).
TileValues == {U32(0), U32(67305985), [hi |-> 32768, lo |-> 5]}
ValueSeqs == SeqsUpTo(TileValues, MaxTiles)

\* Byte buffers: whole tiles, and tiles cut short.
Buffers ==
    {SubSeq(LEBytes(vs), 1, k) : vs \in [1..MaxTiles -> TileValues], k \in 0..(4 * MaxTiles)}

CutLast(s) == SubSeq(s, 1, Len(s) - 1)
BadSum(s) == [s EXCEPT ![Len(s)] = (s[Len(s)] + 1) % 256]

Payloads ==
    UNION {{Base64Encode(b),
            Base64Encode(Deflate(b, ZlibMagic)),
            Base64Encode(Deflate(b, GzipMagic)),
            Base64Encode(CutLast(Deflate(b, ZlibMagic))),
            Base64Encode(BadSum(Deflate(b, GzipMagic))),
            Append(Base64Encode(b), BadSym)} : b \in Buffers}

DataInputs ==
    {None} \cup {Some(DataVector(vs)) : vs \in ValueSeqs}
           \cup {Some(DataBase64(p)) : p \in Payloads}

Compressions == {None, Some(""), Some("zlib"), Some("gzip"), Some("lz4")}

\* 641 * 6700417 = 2^32 + 1.
Widths == {U32(0), U32(1), U32(2), U32(641)}
Heights == {U32(1), U32(6700417)}

\* A layer object with no key but those given.
EmptyLayer ==
    [type |-> None, height |-> None, width |-> None, id |-> None, name |-> None,
     compression |-> None, offsetx |-> None, offsety |-> None, opacity |-> None,
     visible |-> None, transparentcolor |-> None, draworder |-> None, image |-> None,
     data |-> None, layers |-> None, objects |-> None, properties |-> None]

TileLayerInputs ==
    {[EmptyLayer EXCEPT !.type = Some(LAYER_TILE), !.name = Some("ground"),
                        !.id = Some(U32(7)), !.width = Some(w), !.height = Some(h),
                        !.data = d, !.compression = c] :
        w \in Widths, h \in Heights, d \in DataInputs, c \in Compressions}

\* Leaves of a layer tree: a tile layer that resolves, a layer of no known
\* type, a tile layer whose data does not decode, a tile layer of 2^32 + 1 tiles.
OkTile ==
    [EmptyLayer EXCEPT !.type = Some(LAYER_TILE), !.name = Some("ok"),
                       !.width = Some(U32(1)), !.height = Some(U32(1)),
                       !.data = Some(DataVector(<<U32(1)>>))]
BogusLayer == [EmptyLayer EXCEPT !.type = Some("bogus"), !.name = Some("bogus")]
BadDataTile ==
    [EmptyLayer EXCEPT !.type = Some(LAYER_TILE), !.name = Some("bad"),
                       !.width = Some(U32(1)), !.height = Some(U32(1)),
                       !.data = Some(DataBase64(<<BadSym>>))]
HugeTile ==
    [EmptyLayer EXCEPT !.type = Some(LAYER_TILE), !.name = Some("huge"),
                       !.width = Some(U32(641)), !.height = Some(U32(6700417))]
Leaves == {OkTile, BogusLayer, BadDataTile, HugeTile}

Property1 == [name |-> "speed", type |-> TYPE_FLOAT, value |-> JInt(5)]
Object1 == [id |-> 1]
Object2 == [id |-> 2]

LayerTypes ==
    {None, Some(LAYER_TILE), Some(LAYER_OBJGROUP), Some(LAYER_IMAGE), Some(LAYER_GROUP),
     Some("bogus"), Some(""), Some("TileLayer")}

\* Layer objects of every type, each with the keys of the other shapes too.
ShapeInputs ==
    {[EmptyLayer EXCEPT !.type = t, !.data = d, !.draworder = o, !.objects = ob,
                        !.image = im, !.layers = ls,
                        !.name = IF full THEN Some("layer") ELSE None,
                        !.id = IF full THEN Some(U32(3)) ELSE None,
                        !.width = IF full THEN Some(U32(1)) ELSE None,
                        !.height = IF full THEN Some(U32(1)) ELSE None,
                        !.opacity = IF full THEN Some(F64(0, 5)) ELSE None,
                        !.visible = IF full THEN Some(FALSE) ELSE None,
                        !.offsetx = IF full THEN Some(F64(8, 0)) ELSE None,
                        !.offsety = IF full THEN Some(F64(-8, 0)) ELSE None,
                        !.transparentcolor =
                            IF full THEN Some(<<"#", "f", "f", "0", "0", "f", "f">>) ELSE None,
                        !.properties = IF full THEN Some(<<Property1>>) ELSE None] :
        t \in LayerTypes,
        d \in {None, Some(DataVector(<<U32(1)>>))},
        o \in {None, Some(DRAWORDER_INDEX), Some(DRAWORDER_TOPDOWN), Some("zzz"),
               Some("Index"), Some("")},
        ob \in {None, Some(<<Object1, Object2>>)},
        im \in {None, Some("a.png")},
        ls \in {None, Some(<<OkTile>>), Some(<<OkTile, BogusLayer>>)},
        full \in BOOLEAN}

Group(children) ==
    [EmptyLayer EXCEPT !.type = Some(LAYER_GROUP), !.name = Some("group"),
                       !.layers = Some(children)]

\* inner under d groups, each group holding left before it and right after it.
RECURSIVE Nest(_, _, _, _)
Nest(d, inner, left, right) ==
    IF d = 0 THEN inner
    ELSE Group(left \o <<Nest(d - 1, inner, left, right)>> \o right)

Siblings == {<<>>} \cup {<<l>> : l \in Leaves}

DocLayers ==
    {<<>>} \cup
    {left \o <<Nest(d, inner, left, right)>> \o right :
        d \in 0..MaxDepth, inner \in Leaves, left \in Siblings, right \in Siblings}

TileInputs ==
    {[id |-> 0, objectgroup |-> og] :
        og \in {None} \cup {Some(l) : l \in Leaves} \cup {Some(Group(<<l>>)) : l \in Leaves}}

DocTilesets ==
    {<<>>, <<[firstgid |-> U32(1), tiles |-> <<>>]>>}
    \cup {<<[firstgid |-> U32(1), tiles |-> <<t>>]>> : t \in TileInputs}

MapInputs ==
    {None} \cup
    {Some([layers |-> ls, tilesets |-> ts, layers_first |-> lf]) :
        ls \in DocLayers, ts \in DocTilesets, lf \in BOOLEAN}

PropertyTypes == {TYPE_STRING, TYPE_INT, TYPE_FLOAT, TYPE_BOOL, TYPE_COLOR, TYPE_FILE, "bogus"}

PropertyValues ==
    {JString(<<"h", "i">>), JString(<<"#", "f", "f", "0", "0", "0", "0">>),
     JString(<<"#", "8", "0", "f", "f", "0", "0", "0", "0">>),
     JString(<<"a", ".", "p", "n", "g">>),
     JString(<<"#", "1", "2", "3", "4", "5", "g">>),
     JInt(5), JInt(0), JInt(-3), JNumber(F64(5, 5)), JNumber(F64(5, 0)),
     JBool(TRUE), JBool(FALSE), JNull}

PropertyInputs ==
    {[name |-> "p", type |-> t, value |-> v] : t \in PropertyTypes, v \in PropertyValues}

\* Texts given to Color::new: well formed, of a wrong length, without the
\* leading #, and of the right shape with characters that are no hex digits.
ColorTexts ==
    {<<>>, <<"#">>, <<"#", "f", "f", "f">>,
     <<"#", "f", "f", "0", "0", "0", "0">>, <<"#", "1", "0", "A", "b", "9", "c">>,
     <<"#", "8", "0", "f", "f", "0", "0", "0", "0">>,
     <<"f", "f", "0", "0", "0", "0", "0">>, <<"n", "o", "t", "a", "h", "e", "x">>,
     <<"#", "1", "2", "3", "4", "5", "g">>, <<"#", "z", "z", "z", "z", "z", "z">>,
     <<"#", "f", "f", "0", "0", "0", "0", "0">>,
     <<"#", "x", "y", "0", "0", "0", "0", "0", "0">>,
     <<"0", "8", "0", "f", "f", "0", "0", "0", "0">>}

\* gids: every combination of the three flags over a few low parts.
GidInputs ==
    {[hi |-> f * 8192 + h, lo |-> l] :
        f \in 0..7, h \in {0, 1, 8191}, l \in {0, 1, 75, 65535}}

MaxTilesets == 3

\* Tileset lists in any order of firstgid, 70000 being above 2^16.
FirstGids == {U32(1), U32(50), U32(200), U32(70000)}
TilesetLists ==
    {[i \in 1..Len(fs) |-> [firstgid |-> fs[i], tiles |-> <<>>]] :
        fs \in SeqsUpTo(FirstGids, MaxTilesets)}

\* Queries: a stripped gid below, at, between and above the firstgids, without
\* flags, flipped horizontally, and with all three flags.
QueryGids ==
    {[hi |-> f + v.hi, lo |-> v.lo] :
        f \in {0, 32768, 57344},
        v \in {U32(0), U32(1), U32(49), U32(50), U32(75), U32(200), U32(5000), U32(70001)}}

TilesetByGidInputs ==
    {[map |-> [tilesets |-> ts, layers |-> <<>>], gid |-> g] :
        ts \in TilesetLists, g \in QueryGids}

\* Layers asked for the tile at a position: tile layers of up to MaxTiles
\* tiles with and without flags, and a layer of each other shape.
FlaggedValues == {U32(0), U32(7), [hi |-> 32768, lo |-> 5], [hi |-> 24576, lo |-> 9]}

PositionLayerObjects ==
    {[EmptyLayer EXCEPT !.type = Some(LAYER_TILE), !.name = Some("tiles"),
                        !.width = Some(U32(Len(vs))), !.height = Some(U32(1)),
                        !.data = Some(DataVector(vs))] :
        vs \in SeqsUpTo(FlaggedValues, MaxTiles)}
    \cup {[EmptyLayer EXCEPT !.type = Some(t), !.name = Some("other"),
                             !.layers = Some(<<OkTile>>)] :
            t \in {LAYER_OBJGROUP, LAYER_IMAGE, LAYER_GROUP}}

Positions == 0..(MaxTiles + 1)

\* The layer of a layer object that resolves.
LayerOf(j) == DeserializeLayer(j, "release").v

PositionCalls ==
    {"is_flipped_horizontally", "is_flipped_vertically", "is_flipped_diagonally",
     "is_flipped_hvd", "get_gid_without_flags"}

GidCalls ==
    {"gid_flipped_horizontally", "gid_flipped_vertically", "gid_flipped_diagonally",
     "gid_flipped_hvd", "gid_without_flags"}

\* Tilesets asked for their rows: counts below and above 2^16, 2^32 - 1 being
\* the greatest, over no column, one, a few and the most.
RowsInputs ==
    {[tilecount |-> n, columns |-> c] :
        n \in {U32(0), U32(7), U32(64), U32(65535), U32(65536), U32(70000),
               [hi |-> 65535, lo |-> 65535]},
        c \in {0, 1, 8, 65535}}

\* Tilesets asked for the place of a gid: 64 tiles, and 65792 tiles of one
\* pixel in an image of 256 by 257.
CoordTilesets ==
    {[firstgid |-> f, tilecount |-> n, columns |-> c, tilewidth |-> w, tileheight |-> h,
      spacing |-> s, margin |-> m] :
        f \in {U32(1), U32(50)}, n \in {U32(64), U32(65792)}, c \in {0, 8, 256},
        w \in {1, 16, 256, 65535}, h \in {1, 16, 256}, s \in {0, 1}, m \in {0, 2}}

CoordGids ==
    {[hi |-> f + v.hi, lo |-> v.lo] :
        f \in {0, 32768},
        v \in {U32(0), U32(1), U32(10), U32(50), U32(59), U32(64), U32(256),
               U32(65537), U32(65586)}}

CoordInputs == {[tileset |-> ts, gid |-> g] : ts \in CoordTilesets, g \in CoordGids}

\* Tiles asked for the frame of a time: animations of up to MaxFrames frames,
\* some of no duration, two of 32768 ms adding up to 2^16.
MaxFrames == 3

Frames == {[duration |-> d, tileid |-> t] : d \in {0, 100, 200, 32768}, t \in {3, 4}}

AnimInputs ==
    {[tile |-> [id |-> 0, animation |-> fs], msecs |-> ms] :
        fs \in SeqsUpTo(Frames, MaxFrames),
        ms \in {U32(0), U32(99), U32(100), U32(299), U32(300), U32(32768), U32(70000),
                [hi |-> 65535, lo |-> 65535]}}

\* Documents asked for the layer of a name: up to MaxLayers top-level layers,
\* two of them of the same name, and groups that hold a layer of a name asked
\* for.  The id tells the layers of a name apart.
MaxLayers == 3

Named(t, name, id) ==
    [EmptyLayer EXCEPT !.type = Some(t), !.name = Some(name), !.id = Some(U32(id))]

NamedLayers ==
    {Named(LAYER_TILE, "a", 1), Named(LAYER_OBJGROUP, "a", 2), Named(LAYER_IMAGE, "b", 3),
     [Named(LAYER_GROUP, "g", 4) EXCEPT !.layers = Some(<<Named(LAYER_TILE, "n", 5)>>)],
     [Named(LAYER_GROUP, "b", 6) EXCEPT !.layers = Some(<<Named(LAYER_TILE, "a", 7)>>)],
     [EmptyLayer EXCEPT !.type = Some(LAYER_IMAGE), !.id = Some(U32(8))]}

NamedDocs ==
    {[layers |-> ls, tilesets |-> <<>>, layers_first |-> TRUE] :
        ls \in SeqsUpTo(NamedLayers, MaxLayers)}

Names == {"a", "b", "g", "n", "", "A"}

\* The map of a document that loads.
MapOfDocument(doc) == load_map(Some(doc), "release").v

(***************************************************************************)
(* The state machine.                                                      *)
(***************************************************************************)
Init ==
    /\ build \in {"debug", "release"}
    /\ \/ call = "layer" /\ arg \in TileLayerInputs
       \/ call = "layer" /\ arg \in ShapeInputs
       \/ call = "map" /\ arg \in MapInputs
       \/ call = "property" /\ arg \in PropertyInputs
       \/ call = "Color::new" /\ arg \in ColorTexts
       \/ call \in GidCalls /\ arg \in GidInputs
       \/ call = "tileset_by_gid" /\ arg \in TilesetByGidInputs
       \/ /\ call \in PositionCalls
          /\ \E j \in PositionLayerObjects, pos \in Positions :
                 arg = [layer |-> LayerOf(j), pos |-> pos]
       \/ call = "rows" /\ arg \in RowsInputs
       \/ call = "coord_by_gid" /\ arg \in CoordInputs
       \/ call = "get_anim" /\ arg \in AnimInputs
       \/ /\ call = "layer_by_name"
          /\ \E doc \in NamedDocs, name \in Names :
                 arg = [map |-> MapOfDocument(doc), name |-> name]
    /\ pc = "start"
    /\ ret = NoRet

\* A layer object is deserialized: Layer::deserialize.
DeserializeLayerCall ==
    /\ pc = "start"
    /\ call = "layer"
    /\ ret' = DeserializeLayer(arg, build)
    /\ pc' = "done"
    /\ UNCHANGED <<build, call, arg>>

\* tiled_json::load_map(file)
LoadMapCall ==
    /\ pc = "start"
    /\ call = "map"
    /\ ret' = load_map(arg, build)
    /\ pc' = "done"
    /\ UNCHANGED <<build, call, arg>>

\* A property object is deserialized: Property::deserialize.
DeserializePropertyCall ==
    /\ pc = "start"
    /\ call = "property"
    /\ ret' = DeserializeProperty(arg)
    /\ pc' = "done"
    /\ UNCHANGED <<build, call, arg>>

\* Color::new(string)
ColorNewCall ==
    /\ pc = "start"
    /\ call = "Color::new"
    /\ ret' = Ok(ColorNew(arg))
    /\ pc' = "done"
    /\ UNCHANGED <<build, call, arg>>

\* The free functions of lib.rs on a gid.
GidFlippedHorizontallyCall ==
    /\ pc = "start"
    /\ call = "gid_flipped_horizontally"
    /\ ret' = Ok(gid_flipped_horizontally(arg))
    /\ pc' = "done"
    /\ UNCHANGED <<build, call, arg>>

GidFlippedVerticallyCall ==
    /\ pc = "start"
    /\ call = "gid_flipped_vertically"
    /\ ret' = Ok(gid_flipped_vertically(arg))
    /\ pc' = "done"
    /\ UNCHANGED <<build, call, arg>>

GidFlippedDiagonallyCall ==
    /\ pc = "start"
    /\ call = "gid_flipped_diagonally"
    /\ ret' = Ok(gid_flipped_diagonally(arg))
    /\ pc' = "done"
    /\ UNCHANGED <<build, call, arg>>

GidFlippedHvdCall ==
    /\ pc = "start"
    /\ call = "gid_flipped_hvd"
    /\ ret' = Ok(gid_flipped_hvd(arg))
    /\ pc' = "done"
    /\ UNCHANGED <<build, call, arg>>

GidWithoutFlagsCall ==
    /\ pc = "start"
    /\ call = "gid_without_flags"
    /\ ret' = Ok(gid_without_flags(arg))
    /\ pc' = "done"
    /\ UNCHANGED <<build, call, arg>>

\* map.tileset_by_gid(gid)
TilesetByGidCall ==
    /\ pc = "start"
    /\ call = "tileset_by_gid"
    /\ ret' = Ok(tileset_by_gid(arg.map, arg.gid))
    /\ pc' = "done"
    /\ UNCHANGED <<build, call, arg>>

\* The methods of Layer on a position.
IsFlippedHorizontallyCall ==
    /\ pc = "start"
    /\ call = "is_flipped_horizontally"
    /\ ret' = is_flipped_horizontally(arg.layer, arg.pos)
    /\ pc' = "done"
    /\ UNCHANGED <<build, call, arg>>

IsFlippedVerticallyCall ==
    /\ pc = "start"
    /\ call = "is_flipped_vertically"
    /\ ret' = is_flipped_vertically(arg.layer, arg.pos)
    /\ pc' = "done"
    /\ UNCHANGED <<build, call, arg>>

IsFlippedDiagonallyCall ==
    /\ pc = "start"
    /\ call = "is_flipped_diagonally"
    /\ ret' = is_flipped_diagonally(arg.layer, arg.pos)
    /\ pc' = "done"
    /\ UNCHANGED <<build, call, arg>>

IsFlippedHvdCall ==
    /\ pc = "start"
    /\ call = "is_flipped_hvd"
    /\ ret' = is_flipped_hvd(arg.layer, arg.pos)
    /\ pc' = "done"
    /\ UNCHANGED <<build, call, arg>>

GetGidWithoutFlagsCall ==
    /\ pc = "start"
    /\ call = "get_gid_without_flags"
    /\ ret' = get_gid_without_flags(arg.layer, arg.pos)
    /\ pc' = "done"
    /\ UNCHANGED <<build, call, arg>>

\* tileset.rows()
RowsCall ==
    /\ pc = "start"
    /\ call = "rows"
    /\ ret' = Ok(rows(arg))
    /\ pc' = "done"
    /\ UNCHANGED <<build, call, arg>>

\* tileset.coord_by_gid(gid)
CoordByGidCall ==
    /\ pc = "start"
    /\ call = "coord_by_gid"
    /\ ret' = coord_by_gid(arg.tileset, arg.gid, build)
    /\ pc' = "done"
    /\ UNCHANGED <<build, call, arg>>

\* tile.get_anim(msecs)
GetAnimCall ==
    /\ pc = "start"
    /\ call = "get_anim"
    /\ ret' = get_anim(arg.tile, arg.msecs, build)
    /\ pc' = "done"
    /\ UNCHANGED <<build, call, arg>>

\* map.layer_by_name(name): the map is borrowed, not changed.
LayerByNameCall ==
    /\ pc = "start"
    /\ call = "layer_by_name"
    /\ ret' = Ok(layer_by_name(arg.map, arg.name))
    /\ pc' = "done"
    /\ UNCHANGED <<build, call, arg>>

Next ==
    \/ DeserializeLayerCall \/ LoadMapCall \/ DeserializePropertyCall
    \/ ColorNewCall
    \/ GidFlippedHorizontallyCall \/ GidFlippedVerticallyCall
    \/ GidFlippedDiagonallyCall \/ GidFlippedHvdCall \/ GidWithoutFlagsCall
    \/ TilesetByGidCall
    \/ IsFlippedHorizontallyCall \/ IsFlippedVerticallyCall
    \/ IsFlippedDiagonallyCall \/ IsFlippedHvdCall \/ GetGidWithoutFlagsCall
    \/ RowsCall \/ CoordByGidCall \/ GetAnimCall \/ LayerByNameCall

Spec == Init /\ [][Next]_vars

(***************************************************************************)
(* Layer resolution: the type string and the variant.                      *)
(***************************************************************************)
KnownLayerTypes == {LAYER_TILE, LAYER_OBJGROUP, LAYER_IMAGE, LAYER_GROUP}

\* The layer objects under a layer object, itself included.
RECURSIVE LayersUnder(_)
LayersUnder(j) ==
    {j} \cup UNION {LayersUnder(UnwrapOr(j.layers, <<>>)[i]) :
                      i \in 1..Len(UnwrapOr(j.layers, <<>>))}

\* The layer objects under the objectgroup of every tile of a tileset.
LayersOfTileset(ts) ==
    UNION {LayersUnder(Unwrap(ts.tiles[k].objectgroup)) :
              k \in {k \in 1..Len(ts.tiles) : IsSome(ts.tiles[k].objectgroup)}}

\* The layer objects of a document: under its top-level layers and under its
\* tilesets.
LayersOfDocument(doc) ==
    UNION {LayersUnder(doc.layers[i]) : i \in 1..Len(doc.layers)}
    \cup UNION {LayersOfTileset(doc.tilesets[i]) : i \in 1..Len(doc.tilesets)}

HasUnknownType(j) == IsSome(j.type) /\ Unwrap(j.type) \notin KnownLayerTypes

\* C1: a layer record whose type string is none of "tilelayer", "objectgroup",
\* "imagelayer", "group" never becomes a layer: once the record is read, its
\* resolution fails with the invalid-layer-type error that carries the type
\* string, the id (or nil) and the name, and a document holding such a record
\* anywhere is not loaded.
C1_UnknownTypeFails ==
    /\ (pc = "done" /\ call = "layer" /\ HasUnknownType(arg)) =>
            /\ ~IsOk(ret)
            /\ IsOk(DeserializeLayerReader(arg, build)) =>
                    /\ IsErr(ret)
                    /\ ret.v = Format("invalid layer type {} (id: {}, name: {})",
                                      <<Unwrap(arg.type),
                                        IF IsSome(arg.id)
                                        THEN u32_to_string(Unwrap(arg.id)) ELSE "nil",
                                        UnwrapOr(arg.name, "")>>)
    /\ (pc = "done" /\ call = "map" /\ IsSome(arg)
            /\ \E j \in LayersOfDocument(Unwrap(arg)) : HasUnknownType(j)) =>
            ~IsOk(ret)

\* A record of type "TileLayer" (the name of the variant, not a type string)
\* that carries tile data, an id and a name is refused with the error.
C1_Witness ==
    /\ pc = "done" /\ call = "layer"
    /\ arg.type = Some("TileLayer") /\ IsSome(arg.data) /\ IsSome(arg.id)
    /\ IsNone(arg.layers)
    /\ IsErr(ret)
    /\ ret.v.fmt = "invalid layer type {} (id: {}, name: {})"
    /\ ret.v.args = <<"TileLayer", "3", "layer">>

\* LayerType of a type string.
VariantOf(t) ==
    CASE t = LAYER_TILE -> "TileLayer"
      [] t = LAYER_OBJGROUP -> "ObjectGroup"
      [] t = LAYER_IMAGE -> "ImageLayer"
      [] t = LAYER_GROUP -> "Group"

\* The tag of a layer agrees with its container, and exactly one of the four
\* tags holds.
TagAgrees(l) ==
    /\ is_tile_layer(l) <=> IsSome(get_data(l))
    /\ is_object_group(l) <=> IsSome(get_objects_vector(l))
    /\ is_image_layer(l) <=> IsSome(get_image(l))
    /\ is_group(l) <=> IsSome(get_layers(l))
    /\ (IF is_tile_layer(l) THEN 1 ELSE 0) + (IF is_object_group(l) THEN 1 ELSE 0)
       + (IF is_image_layer(l) THEN 1 ELSE 0) + (IF is_group(l) THEN 1 ELSE 0) = 1

\* The layer l made of the layer object j has the variant of j's type string
\* and an agreeing container, and so have the children of a group, one for
\* each nested layer object and in their order.
RECURSIVE ResolvedAs(_, _)
ResolvedAs(j, l) ==
    /\ IsSome(j.type) /\ Unwrap(j.type) \in KnownLayerTypes
    /\ l.ltype = VariantOf(Unwrap(j.type))
    /\ TagAgrees(l)
    /\ is_group(l) =>
            /\ Len(Unwrap(get_layers(l))) = Len(UnwrapOr(j.layers, <<>>))
            /\ \A i \in 1..Len(Unwrap(get_layers(l))) :
                    ResolvedAs(Unwrap(j.layers)[i], Unwrap(get_layers(l))[i])

\* C2: every resolved layer has the variant its type string names, whatever
\* other keys the record carries, and its type tag agrees with its data
\* container: is_tile_layer iff get_data is Some, is_object_group iff
\* get_objects_vector is Some, is_image_layer iff get_image is Some, is_group
\* iff get_layers is Some, and exactly one of the four holds.  The same holds
\* of every layer of a loaded map.
C2_VariantFixedByType ==
    /\ (pc = "done" /\ call = "layer" /\ IsOk(ret)) => ResolvedAs(arg, ret.v)
    /\ (pc = "done" /\ call = "map" /\ IsOk(ret)) =>
            /\ Len(ret.v.layers) = Len(Unwrap(arg).layers)
            /\ \A i \in 1..Len(ret.v.layers) :
                    ResolvedAs(Unwrap(arg).layers[i], ret.v.layers[i])

\* An image layer made of a record that also carries tile data, objects and
\* nested layers.
C2_Witness ==
    /\ pc = "done" /\ call = "layer"
    /\ arg.type = Some(LAYER_IMAGE)
    /\ IsSome(arg.data) /\ IsSome(arg.objects) /\ IsSome(arg.layers)
    /\ IsOk(ret)
    /\ is_image_layer(ret.v) /\ get_image(ret.v) = Some("a.png")
    /\ IsNone(get_data(ret.v)) /\ IsNone(get_layers(ret.v))


(***************************************************************************)
(* Tile data.                                                              *)
(***************************************************************************)
\* A tile layer object was read and Layer::try_from has run on it.
TileLayerDone ==
    /\ pc = "done" /\ call = "layer"
    /\ arg.type = Some(LAYER_TILE)
    /\ IsOk(DeserializeLayerReader(arg, build))

WidthOf(j) == UnwrapOr(j.width, U32(0))
HeightOf(j) == UnwrapOr(j.height, U32(0))
NameOf(j) == UnwrapOr(j.name, "")

\* n is the product of w and h, as numbers.
AreaIs(w, h, n) ==
    FullProduct(w, h) = <<n % 256, (n \div 256) % 256, n \div 65536, 0, 0, 0, 0, 0>>

StringPayload(j) == IsSome(j.data) /\ Unwrap(j.data).variant = "Base64"
VectorPayload(j) == IsSome(j.data) /\ Unwrap(j.data).variant = "Vector"
Compressed(j) == IsSome(j.compression) /\ Unwrap(j.compression) # ""

\* The bytes a decompression gave, if it gave any.
Decompressed(d) == IF d[1] THEN Some(d[2]) ELSE None

\* The bytes of a decoded payload after the decompression the record names.
BufferAfter(decoded, j) ==
    IF ~IsOk(decoded) THEN None
    ELSE IF Compressed(j)
    THEN Decompressed(decompress_tile_layer_data(decoded.v, Unwrap(j.compression)))
    ELSE Some(decoded.v)

\* The byte buffer of a string payload, decoded and decompressed, if both
\* stages succeed.
BufferOf(j) == BufferAfter(Base64Decode(Unwrap(j.data).string), j)

SizeMismatch(name) == Format("corrupted tilelayer data for name: {}", <<name>>)

\* C3: a string payload whose decoded and decompressed buffer is not empty and
\* has a length other than width*height*4 is refused with the size-mismatch
\* error: the buffer is not cut, not padded, and no tile sequence is returned.
C3_SizeMismatchFails ==
    (/\ TileLayerDone
     /\ StringPayload(arg)
     /\ IsSome(BufferOf(arg))
     /\ Len(Unwrap(BufferOf(arg))) > 0
     /\ ~(/\ Len(Unwrap(BufferOf(arg))) % 4 = 0
          /\ AreaIs(WidthOf(arg), HeightOf(arg), Len(Unwrap(BufferOf(arg))) \div 4)))
    => /\ IsErr(ret)
       /\ ret.v = SizeMismatch(NameOf(arg))

\* The payload of a tile sequence under the compression the record names.
PayloadOf(vs, compression) ==
    IF compression = Some("zlib") THEN Base64Encode(Deflate(LEBytes(vs), ZlibMagic))
    ELSE IF compression = Some("gzip") THEN Base64Encode(Deflate(LEBytes(vs), GzipMagic))
    ELSE Base64Encode(LEBytes(vs))

\* b[4i] | b[4i+1] << 8 | b[4i+2] << 16 | b[4i+3] << 24, i counted from 0.
LittleEndianWord(b, i) ==
    [hi |-> b[4 * i + 3] + 256 * b[4 * i + 4], lo |-> b[4 * i + 1] + 256 * b[4 * i + 2]]

\* C4: a string payload that is the base64 text of the little-endian bytes of
\* width*height u32 values, taken as they are when compression is absent or
\* empty and deflated when it is "zlib" or "gzip", decodes to those values in
\* their order: element i is b[4i] | b[4i+1]<<8 | b[4i+2]<<16 | b[4i+3]<<24.
C4_RoundTrip ==
    \A vs \in ValueSeqs :
        (/\ TileLayerDone
         /\ StringPayload(arg)
         /\ arg.compression \in {None, Some(""), Some("zlib"), Some("gzip")}
         /\ AreaIs(WidthOf(arg), HeightOf(arg), Len(vs))
         /\ Unwrap(arg.data).string = PayloadOf(vs, arg.compression))
        => /\ IsOk(ret)
           /\ get_data(ret.v) = Some(vs)
           /\ \A i \in 0..(Len(vs) - 1) :
                  Unwrap(get_data(ret.v))[i + 1] = LittleEndianWord(LEBytes(vs), i)

\* Two tiles, 0x04030201 and 5 with the flip flag, deflated with zlib.
C4_Witness ==
    /\ TileLayerDone
    /\ arg.width = Some(U32(2)) /\ arg.height = Some(U32(1))
    /\ arg.compression = Some("zlib")
    /\ StringPayload(arg)
    /\ Unwrap(arg.data).string =
           PayloadOf(<<U32(67305985), [hi |-> 32768, lo |-> 5]>>, Some("zlib"))
    /\ IsOk(ret)
    /\ get_data(ret.v) = Some(<<U32(67305985), [hi |-> 32768, lo |-> 5]>>)

\* C5: the data of every tile layer that was resolved has length width*height
\* or length 0, whichever form its data was written in.
C5_DataLengthIsArea ==
    (TileLayerDone /\ IsOk(ret))
    => \/ Len(Unwrap(get_data(ret.v))) = 0
       \/ AreaIs(WidthOf(arg), HeightOf(arg), Len(Unwrap(get_data(ret.v))))

\* C6: a tile layer whose data is an array of integers is resolved, and its
\* tile sequence is that array, whatever the compression key says.
C6_VectorPassesThrough ==
    (TileLayerDone /\ VectorPayload(arg))
    => /\ IsOk(ret)
       /\ get_data(ret.v) = Some(Unwrap(arg.data).vector)

\* C7: a tile layer with no data is resolved to the empty tile sequence for
\* every width and height, both when the data key is absent and when a string
\* payload decodes and decompresses to no bytes.
C7_NoDataIsEmpty ==
    (/\ TileLayerDone
     /\ \/ IsNone(arg.data)
        \/ StringPayload(arg) /\ BufferOf(arg) = Some(<<>>))
    => /\ IsOk(ret)
       /\ get_data(ret.v) = Some(<<>>)

\* The failure class of an outcome: the message without the names put in it.
ClassOf(r) == r.v.fmt

\* What decoding gives for a zlib stream cut short.
CorruptOutcome ==
    decode_tile_layer_data(Base64Encode(CutLast(Deflate(<<1, 0, 0, 0>>, ZlibMagic))),
                           as_usize(U32(1)), "ground", Some("zlib"))

\* C8: a string payload with a compression name that is not empty and is
\* neither "zlib" nor "gzip" fails, and with an outcome of another class than
\* the one a corrupt zlib or gzip stream gives, than the invalid-encoding one
\* and than the size-mismatch one.
C8_UnsupportedIsItsOwnClass ==
    (/\ TileLayerDone
     /\ StringPayload(arg)
     /\ IsOk(Base64Decode(Unwrap(arg.data).string))
     /\ Compressed(arg)
     /\ Unwrap(arg.compression) \notin {"zlib", "gzip"})
    => /\ IsErr(ret)
       /\ ClassOf(ret) # ClassOf(CorruptOutcome)
       /\ ClassOf(ret) # "Cannot decode base64 string of tilelayer named: {}"
       /\ ClassOf(ret) # "corrupted tilelayer data for name: {}"

\* C9: load_map returns a Map only if every layer object of the document is
\* resolved, the children of groups at every depth and the objectgroup of
\* every tile included; if one of them is not, load_map returns an error, and
\* a returned group holds all its children.
C9_AllOrNothing ==
    (pc = "done" /\ call = "map" /\ IsSome(arg))
    => /\ IsOk(ret) \/ IsErr(ret)
       /\ IsOk(ret) <=> \A j \in LayersOfDocument(Unwrap(arg)) :
                            IsOk(DeserializeLayer(j, build))
       /\ IsOk(ret) =>
            /\ Len(ret.v.layers) = Len(Unwrap(arg).layers)
            /\ \A i \in 1..Len(ret.v.layers) :
                    ResolvedAs(Unwrap(arg).layers[i], ret.v.layers[i])

(***************************************************************************)
(* Properties.                                                             *)
(***************************************************************************)
DeclaredTypes == {TYPE_STRING, TYPE_INT, TYPE_FLOAT, TYPE_BOOL, TYPE_COLOR, TYPE_FILE}

\* A property object of a declared type was read and converted.
PropertyDone ==
    /\ pc = "done" /\ call = "property"
    /\ arg.type \in DeclaredTypes
    /\ IsOk(ret)

RawFits(j) ==
    \/ j.value.kind = "string" /\ j.type \in {TYPE_STRING, TYPE_COLOR, TYPE_FILE}
    \/ j.value.kind = "int" /\ j.type \in {TYPE_INT, TYPE_FLOAT}
    \/ j.value.kind = "number" /\ j.type = TYPE_FLOAT
    \/ j.value.kind = "bool" /\ j.type = TYPE_BOOL

\* The tag the raw JSON value has of itself when the declared type is not one
\* it can carry.
RawTag(j) ==
    CASE j.value.kind = "string" -> TYPE_COLOR
      [] j.value.kind = "int" -> TYPE_INT
      [] j.value.kind = "number" -> TYPE_FLOAT
      [] j.value.kind = "bool" -> TYPE_BOOL

PropertyRead == pc = "done" /\ call = "property"

\* C11: a JSON integer literal declared "float" resolves to Float of the same
\* number, never to Int.
C11_IntegerDeclaredFloat ==
    (PropertyRead /\ arg.value.kind = "int" /\ arg.type = TYPE_FLOAT)
    => /\ IsOk(ret)
       /\ ret.v.value.variant = "Float"
       /\ ret.v.value.v = [ip |-> arg.value.num[1], fp |-> 0]

\* The literal -3 declared "float" is Float(-3.0).
C11_Witness ==
    /\ PropertyRead
    /\ arg.value = JInt(-3) /\ arg.type = TYPE_FLOAT
    /\ IsOk(ret)
    /\ ret.v.value = FloatV(F64(-3, 0))

C14_PropertyNeverFails ==
    PropertyRead => IsOk(ret)

(***************************************************************************)
(* Colors.                                                                 *)
(***************************************************************************)
HexDigits ==
    {"0", "1", "2", "3", "4", "5", "6", "7", "8", "9",
     "a", "b", "c", "d", "e", "f", "A", "B", "C", "D", "E", "F"}

\* "#rrggbb" or "#aarrggbb" in hex digits.
WellFormedColor(t) ==
    /\ Len(t) \in {7, 9}
    /\ t[1] = "#"
    /\ \A i \in 2..Len(t) : t[i] \in HexDigits

Fallback == [r |-> 255, g |-> 0, b |-> 255, a |-> 255]

\* C15: Color::new never fails and returns the fallback color (255, 0, 255,
\* 255) for every text that is no well-formed "#rrggbb" or "#aarrggbb"; a
\* property declared "color" with such a text is read, as that fallback.
C15_MalformedColorIsFallback ==
    /\ (pc = "done" /\ call = "Color::new")
        => /\ IsOk(ret)
           /\ ~WellFormedColor(arg) => ret.v = Fallback
    /\ (PropertyRead /\ arg.type = TYPE_COLOR /\ arg.value.kind = "string"
            /\ ~WellFormedColor(arg.value.text))
        => /\ IsOk(ret)
           /\ ret.v.value.variant = "Color"
           /\ ret.v.value.v = Fallback

(***************************************************************************)
(* The tileset of a gid.                                                   *)
(***************************************************************************)
TilesetByGidDone == pc = "done" /\ call = "tileset_by_gid"

\* C16: tileset_by_gid returns None only when the map has no tilesets: for
\* every list that is not empty and every gid it returns a tileset.
C16_NoneOnlyWhenEmpty ==
    TilesetByGidDone => (IsNone(ret.v) <=> Len(arg.map.tilesets) = 0)

\* The low 29 bits of a gid.
Low29(gid) == [hi |-> gid.hi % 8192, lo |-> gid.lo]

\* The places of the tilesets whose firstgid is at most the low 29 bits of gid.
Candidates(tilesets, gid) ==
    {i \in 1..Len(tilesets) : u32_le(tilesets[i].firstgid, Low29(gid))}

\* C17: for every tileset list and every gid, tileset_by_gid returns the
\* tileset of the greatest firstgid among those whose firstgid is at most the
\* gid without its flags, and None when there is none; the flags of the gid
\* do not change the result.
C17_GreatestFirstGid ==
    TilesetByGidDone =>
        IF Candidates(arg.map.tilesets, arg.gid) = {} THEN IsNone(ret.v)
        ELSE /\ IsSome(ret.v)
             /\ \E i \in Candidates(arg.map.tilesets, arg.gid) :
                    Unwrap(ret.v) = arg.map.tilesets[i]
             /\ \A i \in Candidates(arg.map.tilesets, arg.gid) :
                    u32_le(arg.map.tilesets[i].firstgid, Unwrap(ret.v).firstgid)

(***************************************************************************)
(* The flags of a gid.                                                     *)
(***************************************************************************)
\* Bit n of the upper half of a u32, n counted from 16.
UpperBit(gid, n) == (gid.hi \div (2 ^ (n - 16))) % 2 = 1

FlagsOf(h, v, d) ==
    (IF h THEN 32768 ELSE 0) + (IF v THEN 16384 ELSE 0) + (IF d THEN 8192 ELSE 0)

\* C18: for every gid, gid_without_flags has bits 31, 30 and 29 clear and the
\* low 29 bits of the gid; with the bits that gid_flipped_horizontally (31),
\* gid_flipped_vertically (30) and gid_flipped_diagonally (29) report put back
\* it is the gid again; and gid_flipped_hvd is the triple of the three tests.
C18_FlagsAndStripping ==
    /\ (pc = "done" /\ call = "gid_flipped_horizontally") => ret.v = UpperBit(arg, 31)
    /\ (pc = "done" /\ call = "gid_flipped_vertically") => ret.v = UpperBit(arg, 30)
    /\ (pc = "done" /\ call = "gid_flipped_diagonally") => ret.v = UpperBit(arg, 29)
    /\ (pc = "done" /\ call = "gid_flipped_hvd") =>
            ret.v = <<gid_flipped_horizontally(arg), gid_flipped_vertically(arg),
                      gid_flipped_diagonally(arg)>>
    /\ (pc = "done" /\ call = "gid_without_flags") =>
            /\ ret.v.hi < 8192
            /\ ret.v = Low29(arg)
            /\ ret.v.lo = arg.lo
            /\ ret.v.hi + FlagsOf(gid_flipped_horizontally(arg),
                                  gid_flipped_vertically(arg),
                                  gid_flipped_diagonally(arg)) = arg.hi

\* 0xFFFFFFFF stripped is 0x1FFFFFFF.
C18_Witness ==
    /\ pc = "done" /\ call = "gid_without_flags"
    /\ arg = [hi |-> 65535, lo |-> 65535]
    /\ ret = Ok([hi |-> 8191, lo |-> 65535])

(***************************************************************************)
(* The tile at a position.                                                 *)
(***************************************************************************)
PositionDone == pc = "done" /\ call \in PositionCalls

\* pos lies inside the tile data of the layer.
InsideData(l, pos) == is_tile_layer(l) /\ pos < Len(Unwrap(get_data(l)))

\* What the function of lib.rs of the same name gives for a gid.
OfGid(name, gid) ==
    CASE name = "is_flipped_horizontally" -> Ok(gid_flipped_horizontally(gid))
      [] name = "is_flipped_vertically" -> Ok(gid_flipped_vertically(gid))
      [] name = "is_flipped_diagonally" -> Ok(gid_flipped_diagonally(gid))
      [] name = "is_flipped_hvd" -> Ok(gid_flipped_hvd(gid))
      [] name = "get_gid_without_flags" -> Ok(gid_without_flags(gid))

\* What a method gives when there is no tile at the position.
NoTile(name) ==
    CASE name = "is_flipped_hvd" -> Ok(<<FALSE, FALSE, FALSE>>)
      [] name = "get_gid_without_flags" -> Ok(U32(0))
      [] OTHER -> Ok(FALSE)

\* C19: for a tile layer with data d and every pos below len(d), each method
\* on a position gives what the function of lib.rs gives for d[pos].
C19_TileAtPosition ==
    (PositionDone /\ InsideData(arg.layer, arg.pos))
    => ret = OfGid(call, Unwrap(get_data(arg.layer))[arg.pos + 1])

\* C20: for every layer and every pos outside the tile data (pos at or past
\* its length, or no tile layer) the three flag methods give false,
\* is_flipped_hvd gives (false, false, false) and get_gid_without_flags gives
\* 0; none of them panics.
C20_OutsideIsDefault ==
    (PositionDone /\ ~InsideData(arg.layer, arg.pos))
    => /\ ~IsPanic(ret)
       /\ ret = NoTile(call)

(***************************************************************************)
(* Failures of tile-data decoding.                                         *)
(***************************************************************************)
DecodingFailures ==
    {"Cannot decode base64 string of tilelayer named: {}",
     "invalid compression data in tilelayer named {}, compression: {}",
     "corrupted tilelayer data for name: {}"}

\* What a message was given to put in its text.
Mentions(e) == {e.args[i] : i \in 1..Len(e.args)}

\* C21: when the decoding of the tile data of a tile layer fails (invalid
\* base64, compression failure or size mismatch), the failure names the
\* layer, and carries its id as well when the layer has one.
C21_FailureNamesLayerAndId ==
    (/\ TileLayerDone
     /\ StringPayload(arg)
     /\ IsErr(ret)
     /\ ret.v.fmt \in DecodingFailures)
    => /\ NameOf(arg) \in Mentions(ret.v)
       /\ IsSome(arg.id) => u32_to_string(Unwrap(arg.id)) \in Mentions(ret.v)

(***************************************************************************)
(* Object groups and the common fields.                                    *)
(***************************************************************************)
\* A layer object of the type t was read and Layer::try_from has run on it.
LayerOfTypeDone(t) ==
    /\ pc = "done" /\ call = "layer"
    /\ arg.type = Some(t)
    /\ IsOk(DeserializeLayerReader(arg, build))

\* C22: the draw order of an objectgroup layer is Index exactly when the
\* draworder string is "index", and TopDown for "topdown", for every other
\* string and when the key is absent; its objects are the record's objects in
\* their order, or none when the key is absent.
C22_DrawOrderAndObjects ==
    LayerOfTypeDone(LAYER_OBJGROUP)
    => /\ IsOk(ret)
       /\ ret.v.layerdata.variant = "ObjectGroup"
       /\ ret.v.layerdata.draworder = "Index" <=> arg.draworder = Some("index")
       /\ ret.v.layerdata.draworder = "TopDown" <=> arg.draworder # Some("index")
       /\ ret.v.layerdata.objects = UnwrapOr(arg.objects, <<>>)
       /\ get_objects_vector(ret.v) = Some(UnwrapOr(arg.objects, <<>>))

\* An objectgroup whose draworder is "Index", with a capital, and that holds
\* two objects: TopDown, and the two objects in their order.
C22_Witness ==
    /\ LayerOfTypeDone(LAYER_OBJGROUP)
    /\ arg.draworder = Some("Index")
    /\ arg.objects = Some(<<Object1, Object2>>)
    /\ IsOk(ret)
    /\ ret.v.layerdata.draworder = "TopDown"
    /\ ret.v.layerdata.objects = <<Object1, Object2>>

\* The common fields of a layer.
CommonFields(l) ==
    [id |-> l.id, name |-> l.name, opacity |-> l.opacity, visible |-> l.visible,
     width |-> l.width, height |-> l.height,
     offsetx |-> l.offsetx, offsety |-> l.offsety, properties |-> l.properties]

\* The properties of a list of property objects, each converted on its own.
PropertiesOf(items) == [i \in 1..Len(items) |-> DeserializeProperty(items[i]).v]

\* The common fields a layer object asks for: its values, and the defaults for
\* the keys it does not have.
CommonFieldsOf(j) ==
    [id |-> j.id,
     name |-> UnwrapOr(j.name, ""),
     opacity |-> UnwrapOr(j.opacity, F64(1, 0)),
     visible |-> UnwrapOr(j.visible, TRUE),
     width |-> UnwrapOr(j.width, U32(0)),
     height |-> UnwrapOr(j.height, U32(0)),
     offsetx |-> UnwrapOr(j.offsetx, F64(0, 0)),
     offsety |-> UnwrapOr(j.offsety, F64(0, 0)),
     properties |-> PropertiesOf(UnwrapOr(j.properties, <<>>))]

\* The same layer object under another type string.
Retyped(j, t) == [j EXCEPT !.type = Some(t)]

\* C23: for each of the four layer types alike, the common fields of a
\* resolved layer are the values of the record where it has them and the
\* defaults elsewhere (opacity 1.0, visible true, name empty, id None, width,
\* height and offsets 0, no properties), and the same record resolved under
\* another of the four types has the same common fields.
C23_CommonFieldsUniform ==
    \A t \in KnownLayerTypes :
        (LayerOfTypeDone(t) /\ IsOk(ret))
        => /\ CommonFields(ret.v) = CommonFieldsOf(arg)
           /\ \A u \in KnownLayerTypes :
                  IsOk(DeserializeLayer(Retyped(arg, u), build))
                  => CommonFields(DeserializeLayer(Retyped(arg, u), build).v)
                        = CommonFields(ret.v)

\* An image layer made of a record that sets every common field, one of them
\* visible: false, and carries one property.
C23_Witness ==
    /\ LayerOfTypeDone(LAYER_IMAGE)
    /\ arg.visible = Some(FALSE) /\ arg.opacity = Some(F64(0, 5))
    /\ arg.properties = Some(<<Property1>>)
    /\ IsOk(ret)
    /\ ret.v.visible = FALSE /\ ret.v.opacity = F64(0, 5)
    /\ ret.v.id = Some(U32(3)) /\ ret.v.name = "layer"
    /\ Len(ret.v.properties) = 1

\* A group made of a record with no key but its type: every default.
C23_WitnessDefaults ==
    /\ LayerOfTypeDone(LAYER_GROUP)
    /\ arg = [EmptyLayer EXCEPT !.type = Some(LAYER_GROUP)]
    /\ IsOk(ret)
    /\ ret.v.opacity = F64(1, 0) /\ ret.v.visible = TRUE /\ ret.v.name = ""
    /\ ret.v.id = None /\ ret.v.width = U32(0) /\ ret.v.properties = <<>>

(***************************************************************************)
(* Properties whose value does not fit the declared type.                  *)
(***************************************************************************)
\* C24: when the value of a property cannot be read as the type the property
\* is declared to have, the property is a StringV, and a string value is kept
\* in it as it was written.
C24_MisfitDefaultsToString ==
    (/\ pc = "done" /\ call = "property"
     /\ arg.type \in DeclaredTypes
     /\ ~RawFits(arg))
    => /\ IsOk(ret)
       /\ ret.v.value.variant = "StringV"
       /\ arg.value.kind = "string" => ret.v.value.v = arg.value.text

(***************************************************************************)
(* Tilesets: rows, coordinates and animations.                             *)
(***************************************************************************)
\* C25: rows() returns 0 when columns is 0 and the integer quotient
\* tilecount / columns otherwise; it never fails with a division by zero.
C25_RowsIsQuotient ==
    (pc = "done" /\ call = "rows")
    => /\ IsOk(ret)
       /\ arg.columns = 0 => ret.v = 0
       /\ arg.columns # 0 => [hi |-> 0, lo |-> ret.v] = u32_div(arg.tilecount, arg.columns)

(***************************************************************************)
(* The order of the stages of decoding, and the expected size.             *)
(***************************************************************************)
\* The decompression the record names fails on the decoded payload.
DecompressionFails(j) ==
    /\ IsOk(Base64Decode(Unwrap(j.data).string))
    /\ Compressed(j)
    /\ ~decompress_tile_layer_data(Base64Decode(Unwrap(j.data).string).v,
                                   Unwrap(j.compression))[1]

\* C26: the stages are checked in the order base64, compression, size: a
\* string payload that is not base64 fails with the invalid-encoding error
\* whatever the compression name, the width and the height are, and a payload
\* whose decompression fails fails with the compression error whatever the
\* expected size is.
C26_StagesInOrder ==
    /\ (/\ TileLayerDone
        /\ StringPayload(arg)
        /\ IsErr(Base64Decode(Unwrap(arg.data).string)))
       => /\ IsErr(ret)
          /\ ret.v = Format("Cannot decode base64 string of tilelayer named: {}",
                            <<NameOf(arg)>>)
    /\ (/\ TileLayerDone
        /\ StringPayload(arg)
        /\ DecompressionFails(arg))
       => /\ IsErr(ret)
          /\ ret.v = Format("invalid compression data in tilelayer named {}, compression: {}",
                            <<NameOf(arg), Unwrap(arg.compression)>>)

\* C27: for every width and height of a tile layer the expected number of
\* tiles is the product width*height as numbers: the multiplication neither
\* aborts nor wraps, and a string payload that is accepted with tiles has
\* exactly 4*width*height bytes, that is width*height tiles.
C27_ExpectedSizeIsProduct ==
    TileLayerDone
    => /\ ~IsPanic(ret)
       /\ IsOk(u32_mul(WidthOf(arg), HeightOf(arg), build))
       /\ FullProduct(WidthOf(arg), HeightOf(arg))
            = U32Digits(u32_mul(WidthOf(arg), HeightOf(arg), build).v) \o <<0, 0, 0, 0>>
       /\ (StringPayload(arg) /\ IsOk(ret) /\ Len(Unwrap(get_data(ret.v))) > 0)
            => AreaIs(WidthOf(arg), HeightOf(arg), Len(Unwrap(get_data(ret.v))))

\* A u32 below 2^31 as a number.
NumberOf(x) == x.hi * 65536 + x.lo

\* The gid belongs to the tileset: firstgid <= gid_without_flags(gid) <
\* firstgid + tilecount.
BelongsTo(ts, gid) ==
    /\ NumberOf(ts.firstgid) <= NumberOf(gid_without_flags(gid))
    /\ NumberOf(gid_without_flags(gid)) < NumberOf(ts.firstgid) + NumberOf(ts.tilecount)

\* gid_without_flags(gid) - firstgid, as a number.
LidOf(ts, gid) == NumberOf(gid_without_flags(gid)) - NumberOf(ts.firstgid)

\* C28: for every tileset with columns > 0 and every gid that belongs to it,
\* coord_by_gid returns ((tilewidth + spacing) * (lid mod columns) + margin,
\* (tileheight + spacing) * (lid div columns) + margin), lid being
\* gid_without_flags(gid) - firstgid, as numbers: nothing is cut to 16 bits
\* and nothing overflows.
C28_CoordOfGid ==
    (/\ pc = "done" /\ call = "coord_by_gid"
     /\ arg.tileset.columns > 0
     /\ BelongsTo(arg.tileset, arg.gid))
    => /\ IsOk(ret)
       /\ ret.v[1] = (arg.tileset.tilewidth + arg.tileset.spacing)
                        * (LidOf(arg.tileset, arg.gid) % arg.tileset.columns)
                     + arg.tileset.margin
       /\ ret.v[2] = (arg.tileset.tileheight + arg.tileset.spacing)
                        * (LidOf(arg.tileset, arg.gid) \div arg.tileset.columns)
                     + arg.tileset.margin

\* The sum of the durations of the first n frames, as a number.
RECURSIVE DurationOfFirst(_, _)
DurationOfFirst(animation, n) ==
    IF n = 0 THEN 0 ELSE DurationOfFirst(animation, n - 1) + animation[n].duration

TotalOf(animation) == DurationOfFirst(animation, Len(animation))

\* Frame k is the one shown at the time t of the cycle.
ShownAt(animation, k, t) ==
    /\ DurationOfFirst(animation, k - 1) <= t
    /\ t < DurationOfFirst(animation, k)

\* C29: get_anim(msecs) returns (false, 0) for a tile without animation
\* frames; for a tile with frames and every msecs it does not fail, and it
\* returns (true, tileid of the frame k) where the durations of the frames
\* before k add up to at most msecs mod total, and with that of k to more,
\* total being the sum of all the durations.
C29_FrameOfTime ==
    (pc = "done" /\ call = "get_anim")
    => /\ IsOk(ret)
       /\ Len(arg.tile.animation) = 0 => ret.v = <<FALSE, 0>>
       /\ (Len(arg.tile.animation) > 0 /\ TotalOf(arg.tile.animation) > 0)
            => \E k \in 1..Len(arg.tile.animation) :
                   /\ ShownAt(arg.tile.animation, k,
                              u32_rem(arg.msecs, TotalOf(arg.tile.animation)))
                   /\ ret.v = <<TRUE, arg.tile.animation[k].tileid>>

(***************************************************************************)
(* The layer of a name.                                                    *)
(***************************************************************************)
\* The places in a list of layers of the layers of a name.
PlacesOfName(layers, name) == {i \in 1..Len(layers) : layers[i].name = name}

\* The first layer of the name in the list, if there is one.
FirstOfName(layers, name) ==
    IF PlacesOfName(layers, name) = {} THEN None
    ELSE Some(layers[CHOOSE i \in PlacesOfName(layers, name) :
                        \A k \in PlacesOfName(layers, name) : i <= k])

\* C30: layer_by_name(name) returns the first layer, in the order of the
\* document, of the top-level layers of the map whose name is name, and None
\* when no top-level layer has that name, layers held by groups not being
\* looked at; the call leaves the map as it was.
C30_FirstTopLevelLayerOfName ==
    [][(call = "layer_by_name" /\ pc = "start")
        => /\ arg' = arg
           /\ ret' = Ok(FirstOfName(arg.map.layers, arg.name))]_vars

\* A map whose layers are a group "b" holding a layer "a", an objectgroup "a"
\* and a tile layer "a": the objectgroup is returned.
C30_Witness ==
    /\ pc = "done" /\ call = "layer_by_name"
    /\ arg.name = "a"
    /\ Len(arg.map.layers) = 3
    /\ is_group(arg.map.layers[1]) /\ arg.map.layers[1].name = "b"
    /\ Len(Unwrap(get_layers(arg.map.layers[1]))) = 1
    /\ Unwrap(get_layers(arg.map.layers[1]))[1].name = "a"
    /\ arg.map.layers[2].name = "a" /\ arg.map.layers[3].name = "a"
    /\ is_tile_layer(arg.map.layers[3])
    /\ IsOk(ret) /\ IsSome(ret.v)
    /\ Unwrap(ret.v) = arg.map.layers[2]
    /\ is_object_group(Unwrap(ret.v)) /\ Unwrap(ret.v).id = Some(U32(2))

\* A map whose only layer is a group holding a layer "n": no layer "n".
C30_WitnessNested ==
    /\ pc = "done" /\ call = "layer_by_name"
    /\ arg.name = "n"
    /\ Len(arg.map.layers) = 1
    /\ is_group(arg.map.layers[1])
    /\ Unwrap(get_layers(arg.map.layers[1]))[1].name = "n"
    /\ ret = Ok(None)

====
